---- MODULE Spec2Model ----
(***************************************************************************)
(* The deduplication endpoint of src/pages/api/dedupe.ts: the similarity   *)
(* metric, the corpus loader, and the nested pairwise scan that deletes    *)
(* the older item of every matching pair from the blob store.              *)
(*                                                                         *)
(* Strings (headings, URLs, pathnames) are sequences of one-character      *)
(* strings.  A similarity score is the exact fraction <<num, den>>; the    *)
(* scores the code computes are 1 - d/m for small integers d <= m, and     *)
(* IEEE-754 doubles order such values as the fractions do (1 - 1/5 is the  *)
(* double 0.8 itself), so fractions decide `sim > 0.8` as the code does.   *)
(* lastUpdated holds the instant that `new Date(item.lastUpdated)`         *)
(* denotes, as an integer; ingestion writes well-formed ISO timestamps.    *)
(***************************************************************************)
EXTENDS Integers, Sequences, FiniteSets, TLC

\* ------------------------------------------------------------- bounds
\* Objects stored under news/global/ when the first invocation arrives.
MaxItems == 3
\* Invocations of the handler.
MaxRuns == 2
\* I/O calls (list, fetch, del) that fail, over all invocations.
MaxFaults == 1

\* Longest heading in the specification of the metric.
MaxLen == 3

\* MAX_API_CALLS of news.ts line 304 is 300; the budget is scaled down so
\* that it is used up within the bounds.
MAX_API_CALLS == 2

\* The articles one news request processes together (Promise.all, line 543).
MaxArticles == 2

\* ------------------------------------------------------ similarity metric
Max(x, y) == IF x >= y THEN x ELSE y

\* Mutant: the greatest of the three terms is taken.
Max3InPlaceOfMin(x, y, z) == IF x >= y /\ x >= z THEN x ELSE IF y >= z THEN y ELSE z

\* Mutant: the substitution term of the minimum is missing.
Min3NoSubstitution(x, y, z) == IF x <= y THEN x ELSE y

Min3(x, y, z) == IF x <= y /\ x <= z THEN x ELSE IF y <= z THEN y ELSE z

\* Row i (i >= 1) of the matrix, built left to right: cur holds the columns
\* 0 .. Len(cur)-1 of row i, prev is the whole row i-1 (column j at index j+1).
RECURSIVE FillRow(_, _, _, _, _)
FillRow(a, b, i, prev, cur) ==
    IF Len(cur) = Len(b) + 1 THEN cur
    ELSE LET j == Len(cur)
             cost == IF a[i] = b[j] THEN 0 ELSE 1
         IN  FillRow(a, b, i, prev,
                     Append(cur, Min3(prev[j + 1] + 1,   \* deletion
                                      cur[j] + 1,         \* insertion
                                      prev[j] + cost)))   \* substitution

RECURSIVE MatrixRow(_, _, _)
MatrixRow(a, b, i) ==
    IF i = 0 THEN [j \in 1..(Len(b) + 1) |-> j - 1]
    ELSE FillRow(a, b, i, MatrixRow(a, b, i - 1), <<i>>)

levenshteinDistance(a, b) == MatrixRow(a, b, Len(a))[Len(b) + 1]

\* Mutant: the distance is divided by the length of the first string.
similarityByFirstLength(a, b) ==
    LET maxLength == Len(a)
    IN  IF maxLength = 0 THEN <<1, 1>>
        ELSE <<maxLength - levenshteinDistance(a, b), maxLength>>

\* Mutant: the test for two empty strings is missing, and the score is 1 - 0/0.
similarityNoEmptyCase(a, b) ==
    LET maxLength == Max(Len(a), Len(b))
    IN  <<maxLength - levenshteinDistance(a, b), maxLength>>

\* 1 - distance / maxLength as the fraction <<maxLength - distance, maxLength>>.
similarity(a, b) ==
    LET maxLength == Max(Len(a), Len(b))
    IN  IF maxLength = 0 THEN <<1, 1>>
        ELSE <<maxLength - levenshteinDistance(a, b), maxLength>>

\* Order and equality of fractions with positive denominators.
FracGt(r, s) == r[1] * s[2] > s[1] * r[2]
FracEq(r, s) == r[1] * s[2] = s[1] * r[2]

\* 0.8
LEVENSHTEIN_THRESHOLD == <<4, 5>>

\* Mutant: the comparison is not strict (sim >= LEVENSHTEIN_THRESHOLD).
IsMatchOrEqual(sim) ==
    FracGt(sim, LEVENSHTEIN_THRESHOLD) \/ FracEq(sim, LEVENSHTEIN_THRESHOLD)

\* line 97: sim > LEVENSHTEIN_THRESHOLD
IsMatch(sim) == FracGt(sim, LEVENSHTEIN_THRESHOLD)

\* ------------------------------------------------------------ the data
\* Headings.  H6 matches H5a (one insertion) and H5b (one insertion): distance
\* 1 over length 6, score 5/6.  H5a and H5b are one substitution apart:
\* distance 1 over length 5, score exactly 0.8.  So matching is not
\* transitive over the three.
H6 == <<"a", "a", "a", "a", "a", "b">>
H5a == <<"a", "a", "a", "a", "a">>
H5b == <<"a", "a", "a", "a", "b">>
Headings == {H6, H5a, H5b}

\* Headings for the specification of the metric: every string over the
\* alphabet of length up to MaxLen, the empty string included.
Alphabet == {"a", "b"}
Strings == UNION {[1..n -> Alphabet] : n \in 0..MaxLen}

\* Source URLs; the first is a prefix of the second.
UrlA == <<"u", "/", "a">>
UrlAB == <<"u", "/", "a", "b">>
Urls == {UrlA, UrlAB}

\* The source URL of the article stored under handle k: the objects with
\* odd handles share one URL, which is a prefix of the URL of the others.
SourceUrl(k) == IF k % 2 = 1 THEN UrlA ELSE UrlAB

\* Instants of lastUpdated.  Only their order is read (line 101), so the
\* instants of a corpus are taken as ranks: the values used are 1 .. k.
Dates == 1..MaxItems

DenseDates(d) ==
    LET used == {d[k] : k \in DOMAIN d} IN used = 1..Cardinality(used)

Procs == 1..MaxRuns

\* encodeURIComponent over the characters that occur: "/" is escaped, the
\* letters are kept.
EncodeChar(c) == IF c = "/" THEN <<"%", "2", "F">> ELSE <<c>>

RECURSIVE encodeURIComponent(_)
encodeURIComponent(s) ==
    IF s = <<>> THEN <<>> ELSE EncodeChar(Head(s)) \o encodeURIComponent(Tail(s))

\* String.prototype.includes
Includes(s, sub) ==
    \E k \in 0..(Len(s) - Len(sub)) : SubSeq(s, k + 1, k + Len(sub)) = sub

\* The persona the cached copies were written for.
Vibe == <<"v">>

\* `news/personas/${encodeURIComponent(vibe)}/${encodeURIComponent(article.url)}.json`
PersonaKey(vibe, url) ==
    <<"n", "e", "w", "s", "/", "p", "e", "r", "s", "o", "n", "a", "s", "/">>
        \o encodeURIComponent(vibe) \o <<"/">> \o encodeURIComponent(url)
        \o <<".", "j", "s", "o", "n">>

\* The objects under news/personas/, in listing order: one cached copy per
\* source URL.  Their handles are 101 and 102; those under news/global/ are
\* 1 .. MaxItems.
PersonaBlobs ==
    << [url |-> 101, pathname |-> PersonaKey(Vibe, UrlA)],
       [url |-> 102, pathname |-> PersonaKey(Vibe, UrlAB)] >>

\* No item: the value of itemToDelete outside the resolution of a match.
NoItem == [heading |-> <<>>, url |-> <<>>, lastUpdated |-> 0, blobUrl |-> 0]

Methods == {"POST", "GET"}

\* ------------------------------------------------------------ the state
VARIABLES
    written,           \* the objects ingestion wrote under news/global/ (never changes)
    globalStore,       \* objects under news/global/: <<[url, content]>>, listing order
    personaStore,      \* objects under news/personas/: <<[url, pathname]>>
    faults,            \* I/O calls that have failed so far
    method,            \* per invocation: req.method ("" before the request arrives)
    pc,                \* per invocation: where the handler is suspended
    blobs,             \* getAllNewsItems: the listed blobs (<<[url]>>) not fetched yet
    newsItems,         \* the working sequence (items with their blobUrl)
    loaded,            \* what getAllNewsItems returned (kept for the properties)
    i, j,              \* the loop indices, 0-based as in the source
    deletedCount,
    itemToDelete,
    relatedVibeBlobs,  \* the persona blobs still to delete for itemToDelete
    response,          \* [status, deleted]; status 0: none sent yet
    log                \* per invocation: the similarity calls and store calls made

\* The state of the news endpoint (src/pages/api/news.ts).
VARIABLES
    apiCallCount,      \* the module-level counter of line 303
    newsPc,            \* per news request: where its handler is
    articles,          \* per news request: its articles' tasks, <<[pc, bias]>>
    modelCalls         \* per news request: the model invocations made for it

aiVars == <<apiCallCount, newsPc, articles, modelCalls>>

vars == <<written, globalStore, personaStore, faults, method, pc, blobs, newsItems, loaded, i, j,
          deletedCount, itemToDelete, relatedVibeBlobs, response, log, aiVars>>

\* A call of the invocation, as logged: "cmp" (similarity of the items with
\* handles a and b, and the score it returned), "del" (deleteBlob of handle
\* a), "plist" (list of the persona namespace), "pdel" (del of persona blob
\* a); ok tells whether the call returned or threw.
CmpEv(a, b, sim) == [op |-> "cmp", a |-> a, b |-> b, ok |-> TRUE, sim |-> sim]
Ev(op, a, b, ok) == [op |-> op, a |-> a, b |-> b, ok |-> ok, sim |-> <<0, 1>>]

\* line 303: no news request has arrived, the counter is 0.
AiInit ==
    /\ apiCallCount = 0
    /\ newsPc = [r \in Procs |-> "idle"]
    /\ articles = [r \in Procs |-> <<>>]
    /\ modelCalls = [r \in Procs |-> 0]

Logged(p, e) == log' = [log EXCEPT ![p] = Append(@, e)]

Init ==
    /\ \E n \in 0..MaxItems : \E h \in [1..n -> Headings], d \in [1..n -> Dates] :
           /\ DenseDates(d)
           /\ written = [k \in 1..n |->
                  [url |-> k,
                   content |-> [heading |-> h[k], url |-> SourceUrl(k),
                                lastUpdated |-> d[k]]]]
    /\ globalStore = written
    /\ personaStore = PersonaBlobs
    /\ faults = 0
    /\ method = [p \in Procs |-> ""]
    /\ pc = [p \in Procs |-> "idle"]
    /\ blobs = [p \in Procs |-> <<>>]
    /\ newsItems = [p \in Procs |-> <<>>]
    /\ loaded = [p \in Procs |-> <<>>]
    /\ i = [p \in Procs |-> 0]
    /\ j = [p \in Procs |-> 0]
    /\ deletedCount = [p \in Procs |-> 0]
    /\ itemToDelete = [p \in Procs |-> NoItem]
    /\ relatedVibeBlobs = [p \in Procs |-> <<>>]
    /\ response = [p \in Procs |-> [status |-> 0, deleted |-> -1]]
    /\ log = [p \in Procs |-> <<>>]
    /\ AiInit

\* ------------------------------------------------------- handler helpers
\* lines 59-62: the parsed item with the listed blob's url attached.
WithBlobUrl(newsItem, blob) ==
    [heading |-> newsItem.heading, url |-> newsItem.url,
     lastUpdated |-> newsItem.lastUpdated, blobUrl |-> blob.url]

\* Mutant: the delete key is rebuilt from the item's source URL, so that
\* the items of one URL share a key.
RebuiltKey(item) == IF item.url = UrlA THEN 1 ELSE 2

\* line 104: const blobUrl = itemToDelete._blobUrl
BlobUrlOf(item) == item.blobUrl

\* Mutant: the source URLs are compared in place of the headings.
SimOfUrls(item1, item2) == similarity(item1.url, item2.url)

\* line 95: similarity(item1.heading, item2.heading)
Sim(item1, item2) == similarity(item1.heading, item2.heading)

\* Mutant: the comparison is reversed, so the newer item is chosen.
ChooseNewer(item1, item2) ==
    IF item1.lastUpdated > item2.lastUpdated THEN item1 ELSE item2

\* Mutant: the comparison is <=, so item1 is chosen when the instants are equal.
ChooseItem1OnTie(item1, item2) ==
    IF item1.lastUpdated <= item2.lastUpdated THEN item1 ELSE item2

\* Mutant: item1 is chosen whatever the instants are.
ChooseItem1Always(item1, item2) == item1

\* line 101: new Date(item1.lastUpdated) < new Date(item2.lastUpdated) ? item1 : item2
ChooseItemToDelete(item1, item2) ==
    IF item1.lastUpdated < item2.lastUpdated THEN item1 ELSE item2

\* Array.prototype.indexOf, 0-based; -1 when absent.  The items of one
\* working sequence are distinct objects and carry distinct blob urls, so
\* record equality is object identity.
IndexOf(arr, x) ==
    IF \E k \in 1..Len(arr) : arr[k] = x
    THEN (CHOOSE k \in 1..Len(arr) : arr[k] = x /\ \A m \in 1..(k - 1) : arr[m] # x) - 1
    ELSE -1

\* Mutant: slice in place of splice: the array is left as it was.
SliceNotSplice(arr, start) == arr

\* arr.splice(start, 1); a negative start counts from the end.
Splice1(arr, start) ==
    LET at == IF start < 0 THEN Max(Len(arr) + start, 0) ELSE start
    IN  [k \in 1..(Len(arr) - (IF at < Len(arr) THEN 1 ELSE 0)) |->
            IF k <= at THEN arr[k] ELSE arr[k + 1]]

\* Mutant: the index is off by one, so the element after the loser goes.
RemoveItemOffByOne(arr, item) == Splice1(arr, IndexOf(arr, item) + 1)

\* Mutant: indexOf does not find the loser (-1), so the last item goes.
RemoveItemNotFound(arr, item) == Splice1(arr, -1)

\* line 137: newsItems.splice(newsItems.indexOf(itemToDelete), 1)
RemoveItem(arr, item) == Splice1(arr, IndexOf(arr, item))

\* Mutant: the index is decremented twice.
IndexAfterRemovalTwiceDecrement(jj) == (jj - 2) + 1

\* Mutant: the j-- of line 138 is missing.
IndexAfterRemovalNoDecrement(jj) == jj + 1

\* line 138 followed by the inner loop's j++: the index at which the inner
\* loop goes on after a removal.
IndexAfterRemoval(jj) == (jj - 1) + 1

\* lines 90-91: the loop headers.  From the point where the inner loop
\* tests j < length: the next pair to compare, or the exit of both loops.
RECURSIVE ForStep(_, _, _)
ForStep(n, ii, jj) ==
    IF jj < n THEN [i |-> ii, j |-> jj, done |-> FALSE]
    ELSE IF ii + 1 < n THEN ForStep(n, ii + 1, ii + 2)
    ELSE [i |-> ii + 1, j |-> jj, done |-> TRUE]

\* The handler goes on at the inner loop's test with the working sequence
\* arr and the count dc; when both loops are left it answers (line 146).
Resume(p, arr, ii, jj, dc) ==
    LET nxt == ForStep(Len(arr), ii, jj)
    IN  /\ newsItems' = [newsItems EXCEPT ![p] = arr]
        /\ deletedCount' = [deletedCount EXCEPT ![p] = dc]
        /\ i' = [i EXCEPT ![p] = nxt.i]
        /\ j' = [j EXCEPT ![p] = nxt.j]
        /\ pc' = [pc EXCEPT ![p] = IF nxt.done THEN "done" ELSE "scan"]
        /\ response' = [response EXCEPT ![p] =
               IF nxt.done THEN [status |-> 200, deleted |-> dc] ELSE @]

\* lines 136-138 and on: the loser leaves the working sequence and the scan
\* goes on.
RemoveAndResume(p) ==
    /\ Resume(p, RemoveItem(newsItems[p], itemToDelete[p]), i[p],
              IndexAfterRemoval(j[p]), deletedCount[p])
    /\ itemToDelete' = [itemToDelete EXCEPT ![p] = NoItem]
    /\ relatedVibeBlobs' = [relatedVibeBlobs EXCEPT ![p] = <<>>]

\* lines 87-90: getAllNewsItems has returned arr.
StartScan(p, arr) ==
    /\ loaded' = [loaded EXCEPT ![p] = arr]
    /\ Resume(p, arr, 0, 1, 0)

InStore(store, url) == \E k \in 1..Len(store) : store[k].url = url

\* list(): the metadata of the objects, in listing order.
Listing(store) == [k \in 1..Len(store) |-> [url |-> store[k].url]]

\* fetch(url) and response.json(): the content stored under url.
ContentAt(store, url) ==
    store[CHOOSE k \in 1..Len(store) : store[k].url = url].content

\* Mutant: the object is overwritten with an empty body in place of being
\* removed.
OverwrittenEmpty(store, url) ==
    [k \in 1..Len(store) |->
        IF store[k].url = url THEN [url |-> url, pathname |-> <<>>, content |-> <<>>]
        ELSE store[k]]

\* del(url): the object is gone afterwards (no error when it already was).
Without(store, url) == SelectSeq(store, LAMBDA b : b.url # url)

CanFail == faults < MaxFaults
Fault == faults' = faults + 1

\* --------------------------------------------------------------- actions
\* Mutant: the 405 answer is sent without `return`, so the handler goes on.
BeginWithoutReturn(p, m) ==
    /\ pc[p] = "idle"
    /\ method' = [method EXCEPT ![p] = m]
    /\ pc' = [pc EXCEPT ![p] = "list"]
    /\ IF m # "POST"
       THEN response' = [response EXCEPT ![p] = [status |-> 405, deleted |-> -1]]
       ELSE UNCHANGED response
    /\ UNCHANGED <<aiVars, written, globalStore, personaStore, faults, blobs, newsItems, loaded, i, j,
                   deletedCount, itemToDelete, relatedVibeBlobs, log>>

\* lines 81-86: a request arrives; any verb but POST is answered 405.
Begin(p, m) ==
    /\ pc[p] = "idle"
    /\ method' = [method EXCEPT ![p] = m]
    /\ IF m # "POST"
       THEN /\ pc' = [pc EXCEPT ![p] = "done"]
            /\ response' = [response EXCEPT ![p] = [status |-> 405, deleted |-> -1]]
       ELSE /\ pc' = [pc EXCEPT ![p] = "list"]
            /\ UNCHANGED response
    /\ UNCHANGED <<aiVars, written, globalStore, personaStore, faults, blobs, newsItems, loaded, i, j,
                   deletedCount, itemToDelete, relatedVibeBlobs, log>>

\* lines 44-47: list({prefix: "news/global/"}) answers.
ListOk(p) ==
    /\ pc[p] = "list"
    /\ IF globalStore = <<>>
       THEN /\ StartScan(p, <<>>)
            /\ UNCHANGED blobs
       ELSE /\ blobs' = [blobs EXCEPT ![p] = Listing(globalStore)]
            /\ pc' = [pc EXCEPT ![p] = "fetch"]
            /\ UNCHANGED <<newsItems, loaded, i, j, deletedCount, response>>
    /\ UNCHANGED <<aiVars, written, method, globalStore, personaStore, faults, itemToDelete, relatedVibeBlobs, log>>

\* Mutant: the handler has no catch, so a throwing list() ends the
\* invocation without an answer.
ListFailUnanswered(p) ==
    /\ pc[p] = "list"
    /\ CanFail /\ Fault
    /\ pc' = [pc EXCEPT ![p] = "done"]
    /\ UNCHANGED response
    /\ UNCHANGED <<aiVars, written, method, globalStore, personaStore, blobs, newsItems, loaded, i, j,
                   deletedCount, itemToDelete, relatedVibeBlobs, log>>

\* lines 44-47, 147-149: list throws; the handler's catch answers 500.
ListFail(p) ==
    /\ pc[p] = "list"
    /\ CanFail /\ Fault
    /\ pc' = [pc EXCEPT ![p] = "done"]
    /\ response' = [response EXCEPT ![p] = [status |-> 500, deleted |-> -1]]
    /\ UNCHANGED <<aiVars, written, method, globalStore, personaStore, blobs, newsItems, loaded, i, j,
                   deletedCount, itemToDelete, relatedVibeBlobs, log>>

\* The loop of lines 50-66 goes on with the rest of the listing, the items
\* pushed so far being arr.
FetchNext(p, arr) ==
    /\ blobs' = [blobs EXCEPT ![p] = Tail(@)]
    /\ IF Tail(blobs[p]) = <<>>
       THEN StartScan(p, arr)
       ELSE /\ newsItems' = [newsItems EXCEPT ![p] = arr]
            /\ UNCHANGED <<pc, loaded, i, j, deletedCount, response>>

\* lines 52-62: the blob is fetched and parsed, and pushed with its url.
FetchOk(p) ==
    /\ pc[p] = "fetch"
    /\ InStore(globalStore, Head(blobs[p]).url)
    /\ FetchNext(p, Append(newsItems[p],
                           WithBlobUrl(ContentAt(globalStore, Head(blobs[p]).url),
                                       Head(blobs[p]))))
    /\ UNCHANGED <<aiVars, written, method, globalStore, personaStore, faults, itemToDelete, relatedVibeBlobs, log>>

\* Mutant: the loop body has no try and no check of response.ok, so a failed
\* fetch ends getAllNewsItems with an error and the handler answers 500.
FetchFailAborts(p) ==
    /\ pc[p] = "fetch"
    /\ IF InStore(globalStore, Head(blobs[p]).url)
       THEN CanFail /\ Fault
       ELSE UNCHANGED faults
    /\ pc' = [pc EXCEPT ![p] = "done"]
    /\ response' = [response EXCEPT ![p] = [status |-> 500, deleted |-> -1]]
    /\ UNCHANGED <<blobs, newsItems, loaded, i, j, deletedCount>>
    /\ UNCHANGED <<aiVars, written, method, globalStore, personaStore, itemToDelete, relatedVibeBlobs, log>>

\* lines 53-56, 63-65: the fetch or the parse fails (always so when the
\* object is gone); the blob is skipped.
FetchFail(p) ==
    /\ pc[p] = "fetch"
    /\ IF InStore(globalStore, Head(blobs[p]).url)
       THEN CanFail /\ Fault
       ELSE UNCHANGED faults
    /\ FetchNext(p, newsItems[p])
    /\ UNCHANGED <<aiVars, written, method, globalStore, personaStore, itemToDelete, relatedVibeBlobs, log>>

\* lines 92-109: one pass of the inner loop's body up to the await of line 112.
Compare(p) ==
    /\ pc[p] = "scan"
    /\ LET item1 == newsItems[p][i[p] + 1]
           item2 == newsItems[p][j[p] + 1]
           sim == Sim(item1, item2)
       IN  /\ Logged(p, CmpEv(item1.blobUrl, item2.blobUrl, sim))
           /\ IF IsMatch(sim)
              THEN /\ itemToDelete' = [itemToDelete EXCEPT ![p] =
                                           ChooseItemToDelete(item1, item2)]
                   /\ pc' = [pc EXCEPT ![p] = "del"]
                   /\ UNCHANGED <<newsItems, i, j, deletedCount, response>>
              ELSE /\ Resume(p, newsItems[p], i[p], j[p] + 1, deletedCount[p])
                   /\ UNCHANGED itemToDelete
    /\ UNCHANGED <<aiVars, written, method, globalStore, personaStore, faults, blobs, loaded, relatedVibeBlobs>>

\* lines 104, 112-113 (and 70-74): deleteBlob(itemToDelete._blobUrl) succeeds.
DeleteOk(p) ==
    /\ pc[p] = "del"
    /\ globalStore' = Without(globalStore, BlobUrlOf(itemToDelete[p]))
    /\ deletedCount' = [deletedCount EXCEPT ![p] = @ + 1]
    /\ pc' = [pc EXCEPT ![p] = "plist"]
    /\ Logged(p, Ev("del", BlobUrlOf(itemToDelete[p]), 0, TRUE))
    /\ UNCHANGED <<aiVars, written, method, personaStore, faults, blobs, newsItems, loaded, i, j,
                   itemToDelete, relatedVibeBlobs, response>>

\* Mutant: deletedCount++ comes before the await of deleteBlob, so a failed
\* delete is counted.
DeleteFailCountsAnyway(p) ==
    /\ pc[p] = "del"
    /\ CanFail /\ Fault
    /\ Logged(p, Ev("del", BlobUrlOf(itemToDelete[p]), 0, FALSE))
    /\ Resume(p, newsItems[p], i[p], j[p] + 1, deletedCount[p] + 1)
    /\ itemToDelete' = [itemToDelete EXCEPT ![p] = NoItem]
    /\ UNCHANGED <<aiVars, written, method, globalStore, personaStore, blobs, loaded, relatedVibeBlobs>>

\* lines 75-78, 139-141: deleteBlob throws; the catch logs and the inner
\* loop goes on with j + 1.
DeleteFail(p) ==
    /\ pc[p] = "del"
    /\ CanFail /\ Fault
    /\ Logged(p, Ev("del", BlobUrlOf(itemToDelete[p]), 0, FALSE))
    /\ Resume(p, newsItems[p], i[p], j[p] + 1, deletedCount[p])
    /\ itemToDelete' = [itemToDelete EXCEPT ![p] = NoItem]
    /\ UNCHANGED <<aiVars, written, method, globalStore, personaStore, blobs, loaded, relatedVibeBlobs>>

\* lines 124-126
RelatedVibeBlobs(relatedBlobs, item) ==
    SelectSeq(relatedBlobs,
              LAMBDA blob : Includes(blob.pathname, encodeURIComponent(item.url)))

\* lines 117-126: the persona namespace is listed and filtered.
PersonaListOk(p) ==
    /\ pc[p] = "plist"
    /\ Logged(p, Ev("plist", 0, 0, TRUE))
    /\ LET related == RelatedVibeBlobs(personaStore, itemToDelete[p])
       IN  IF related = <<>>
           THEN RemoveAndResume(p)
           ELSE /\ relatedVibeBlobs' = [relatedVibeBlobs EXCEPT ![p] = related]
                /\ pc' = [pc EXCEPT ![p] = "pdel"]
                /\ UNCHANGED <<newsItems, i, j, deletedCount, itemToDelete, response>>
    /\ UNCHANGED <<aiVars, written, method, globalStore, personaStore, faults, blobs, loaded>>

\* Mutant: the cleanup has no try of its own and the delete has none either,
\* so the listing's error reaches the catch of line 147 and 500 is answered.
PersonaListFailAborts(p) ==
    /\ pc[p] = "plist"
    /\ CanFail /\ Fault
    /\ Logged(p, Ev("plist", 0, 0, FALSE))
    /\ pc' = [pc EXCEPT ![p] = "done"]
    /\ response' = [response EXCEPT ![p] = [status |-> 500, deleted |-> -1]]
    /\ UNCHANGED <<newsItems, i, j, deletedCount, itemToDelete, relatedVibeBlobs>>
    /\ UNCHANGED <<aiVars, written, method, globalStore, personaStore, blobs, loaded>>

\* lines 118-121, 132-138: the listing throws; the cleanup is given up.
PersonaListFail(p) ==
    /\ pc[p] = "plist"
    /\ CanFail /\ Fault
    /\ Logged(p, Ev("plist", 0, 0, FALSE))
    /\ RemoveAndResume(p)
    /\ UNCHANGED <<aiVars, written, method, globalStore, personaStore, blobs, loaded>>

\* Mutant: the deletion of a persona blob is counted as well.
PersonaDelOkCounted(p) ==
    /\ pc[p] = "pdel"
    /\ LET vibeBlob == Head(relatedVibeBlobs[p])
       IN  /\ personaStore' = Without(personaStore, vibeBlob.url)
           /\ Logged(p, Ev("pdel", vibeBlob.url, 0, TRUE))
    /\ IF Tail(relatedVibeBlobs[p]) = <<>>
       THEN /\ Resume(p, RemoveItem(newsItems[p], itemToDelete[p]), i[p],
                      IndexAfterRemoval(j[p]), deletedCount[p] + 1)
            /\ itemToDelete' = [itemToDelete EXCEPT ![p] = NoItem]
            /\ relatedVibeBlobs' = [relatedVibeBlobs EXCEPT ![p] = <<>>]
       ELSE /\ relatedVibeBlobs' = [relatedVibeBlobs EXCEPT ![p] = Tail(@)]
            /\ deletedCount' = [deletedCount EXCEPT ![p] = @ + 1]
            /\ UNCHANGED <<pc, newsItems, i, j, itemToDelete, response>>
    /\ UNCHANGED <<aiVars, written, method, globalStore, faults, blobs, loaded>>

\* lines 128-131: the next related persona blob is deleted.
PersonaDelOk(p) ==
    /\ pc[p] = "pdel"
    /\ LET vibeBlob == Head(relatedVibeBlobs[p])
       IN  /\ personaStore' = Without(personaStore, vibeBlob.url)
           /\ Logged(p, Ev("pdel", vibeBlob.url, 0, TRUE))
    /\ IF Tail(relatedVibeBlobs[p]) = <<>>
       THEN RemoveAndResume(p)
       ELSE /\ relatedVibeBlobs' = [relatedVibeBlobs EXCEPT ![p] = Tail(@)]
            /\ UNCHANGED <<pc, newsItems, i, j, deletedCount, itemToDelete, response>>
    /\ UNCHANGED <<aiVars, written, method, globalStore, faults, blobs, loaded>>

\* Mutant: the cleanup has no try of its own, so del's error is caught by
\* the catch of line 139 and the splice of line 137 is skipped.
PersonaDelFailSkipsRemoval(p) ==
    /\ pc[p] = "pdel"
    /\ CanFail /\ Fault
    /\ Logged(p, Ev("pdel", Head(relatedVibeBlobs[p]).url, 0, FALSE))
    /\ Resume(p, newsItems[p], i[p], j[p] + 1, deletedCount[p])
    /\ itemToDelete' = [itemToDelete EXCEPT ![p] = NoItem]
    /\ relatedVibeBlobs' = [relatedVibeBlobs EXCEPT ![p] = <<>>]
    /\ UNCHANGED <<aiVars, written, method, globalStore, personaStore, blobs, loaded>>

\* lines 129, 132-138: del throws; the rest of the cleanup is given up.
PersonaDelFail(p) ==
    /\ pc[p] = "pdel"
    /\ CanFail /\ Fault
    /\ Logged(p, Ev("pdel", Head(relatedVibeBlobs[p]).url, 0, FALSE))
    /\ RemoveAndResume(p)
    /\ UNCHANGED <<aiVars, written, method, globalStore, personaStore, blobs, loaded>>

\* A single request.
Request(p) ==
    /\ p = 1
    /\ \E m \in Methods : Begin(p, m)

\* One request at a time: a request arrives when the earlier ones are answered.
Invoke(p) ==
    /\ \A q \in 1..(p - 1) : pc[q] = "done"
    /\ \E m \in Methods : Begin(p, m)

\* The steps of a request that has arrived.
Handle(p) ==
        \/ ListOk(p)
        \/ ListFail(p)
        \/ FetchOk(p)
        \/ FetchFail(p)
        \/ Compare(p)
        \/ DeleteOk(p)
        \/ DeleteFail(p)
        \/ PersonaListOk(p)
        \/ PersonaListFail(p)
        \/ PersonaDelOk(p)
        \/ PersonaDelFail(p)

\* One invocation of the endpoint.
Next == \E p \in Procs : Request(p) \/ Handle(p)

Spec == Init /\ [][Next]_vars

\* The handler of request p is suspended at a call, or about to compare.
Running(p) == pc[p] \notin {"idle", "done"}

\* One invocation whose pending call (list, fetch, del) always settles, by
\* returning or by throwing, so that the handler always takes its next step:
\* weak fairness of Handle(p), with the states in which Handle(p) is enabled
\* written out as Running(p).
FairSpec ==
    /\ Init /\ [][Next]_vars
    /\ \A p \in Procs : []<>(~Running(p)) \/ []<><<Handle(p)>>_vars

\* Invocations one after another over the same store.
SeqNext == \E p \in Procs : Invoke(p) \/ Handle(p)

SeqSpec == Init /\ [][SeqNext]_vars

\* Up to two objects are stored when the requests arrive.
ConcInit == Init /\ Len(written) <= 2

\* Requests in flight together over the same store: a request may arrive
\* while another is suspended at its list, fetch or del call, and the
\* suspended handlers resume in any order.
ConcNext == \E p \in Procs : (\E m \in Methods : Begin(p, m)) \/ Handle(p)

ConcSpec == ConcInit /\ [][ConcNext]_vars

\* Two objects are stored, the second the later one, with any two headings.
SimInit ==
    /\ \E s, t \in Strings :
           written = [k \in 1..2 |->
               [url |-> k,
                content |-> [heading |-> IF k = 1 THEN s ELSE t, url |-> SourceUrl(k),
                             lastUpdated |-> k]]]
    /\ globalStore = written
    /\ personaStore = PersonaBlobs
    /\ faults = 0
    /\ method = [p \in Procs |-> ""]
    /\ pc = [p \in Procs |-> "idle"]
    /\ blobs = [p \in Procs |-> <<>>]
    /\ newsItems = [p \in Procs |-> <<>>]
    /\ loaded = [p \in Procs |-> <<>>]
    /\ i = [p \in Procs |-> 0]
    /\ j = [p \in Procs |-> 0]
    /\ deletedCount = [p \in Procs |-> 0]
    /\ itemToDelete = [p \in Procs |-> NoItem]
    /\ relatedVibeBlobs = [p \in Procs |-> <<>>]
    /\ response = [p \in Procs |-> [status |-> 0, deleted |-> -1]]
    /\ log = [p \in Procs |-> <<>>]
    /\ AiInit

\* One invocation over two objects with arbitrary headings: the handler
\* applies similarity to them at line 95.
SimSpec == SimInit /\ [][Next]_vars

\* ------------------------------------------------- notions of the claims
\* The item stored under handle h, as loaded (handle h is the h-th object
\* written).
ItemAt(p, h) == WithBlobUrl(written[h].content, written[h])

Events(p) == 1..Len(log[p])

IsCmp(p, k) == log[p][k].op = "cmp"
IsDel(p, k) == log[p][k].op = "del"
IsOkDel(p, k) == IsDel(p, k) /\ log[p][k].ok
IsFailedDel(p, k) == IsDel(p, k) /\ ~log[p][k].ok

\* The score that the comparison of event k returned.
CmpSim(p, k) == log[p][k].sim

NoPrimaryDeleteFailed(p) == \A k \in Events(p) : ~IsFailedDel(p, k)

Completed(p) == pc[p] = "done" /\ response[p].status = 200

Similar(x, y) == FracGt(similarity(x.heading, y.heading), LEVENSHTEIN_THRESHOLD)

\* ---------------------------------------------------------------- claims
\* C1: after a run in which every delete call succeeded, no two items left
\* in the working set have heading similarity above the threshold.  Stated
\* for the runs in which no call failed at all, so that the working set is
\* the whole global namespace.
C1_NoSimilarPairRemains ==
    \A p \in Procs :
        (Completed(p) /\ faults = 0) =>
            \A a, b \in 1..Len(newsItems[p]) :
                a < b => ~Similar(newsItems[p][a], newsItems[p][b])

\* C2: when a compared pair matches and the two lastUpdated instants differ,
\* the delete call that follows targets the item with the earlier instant,
\* whether that is the item at the outer index (a) or at the inner index (b).
C2_OlderIsDeleted ==
    \A p \in Procs : \A k \in Events(p) :
        IsDel(p, k) =>
            /\ k > 1 /\ IsCmp(p, k - 1)
            /\ LET item1 == ItemAt(p, log[p][k - 1].a)
                   item2 == ItemAt(p, log[p][k - 1].b)
               IN  /\ item1.lastUpdated < item2.lastUpdated => log[p][k].a = item1.blobUrl
                   /\ item2.lastUpdated < item1.lastUpdated => log[p][k].a = item2.blobUrl

\* C2's case: in one run an older item at the inner index was deleted, and
\* then an older item at the outer index.
C2_Witness ==
    \E k, m \in Events(1) :
        /\ k < m /\ IsOkDel(1, k) /\ IsOkDel(1, m)
        /\ log[1][k].a = log[1][k - 1].b
        /\ ItemAt(1, log[1][k - 1].b).lastUpdated < ItemAt(1, log[1][k - 1].a).lastUpdated
        /\ log[1][m].a = log[1][m - 1].a
        /\ ItemAt(1, log[1][m - 1].a).lastUpdated < ItemAt(1, log[1][m - 1].b).lastUpdated

\* Three loaded items, every pair above the threshold, distinct instants.
ThreeMutuallySimilar(p) ==
    /\ Len(loaded[p]) = 3
    /\ \A a, b \in 1..3 :
           a # b => /\ loaded[p][a].lastUpdated # loaded[p][b].lastUpdated
                    /\ Similar(loaded[p][a], loaded[p][b])

\* C3: three mutually similar items with distinct instants, every delete
\* succeeding: the run ends with one item, the latest, and reports 2.
C3_ThreeSimilarLeaveLatest ==
    \A p \in Procs :
        (Completed(p) /\ NoPrimaryDeleteFailed(p) /\ ThreeMutuallySimilar(p)) =>
            /\ Len(newsItems[p]) = 1
            /\ \A a \in 1..3 : loaded[p][a].lastUpdated <= newsItems[p][1].lastUpdated
            /\ \E a \in 1..3 : loaded[p][a] = newsItems[p][1]
            /\ response[p].deleted = 2

\* C3's case: such a run has ended; the oldest item came first, the latest
\* second, and the headings were not all the same.
C3_Witness ==
    /\ Completed(1) /\ ThreeMutuallySimilar(1) /\ NoPrimaryDeleteFailed(1)
    /\ loaded[1][1].lastUpdated = 1 /\ loaded[1][2].lastUpdated = 3
    /\ loaded[1][1].heading # loaded[1][2].heading

\* C4: two runs in succession, nothing failing and nothing ingested in
\* between: the second run issues no delete call and reports a count of 0.
C4_SecondRunDeletesNothing ==
    (Completed(1) /\ Completed(2) /\ faults = 0) =>
        /\ response[2].deleted = 0
        /\ \A k \in Events(2) : ~IsDel(2, k)

\* C5 as claimed: after a pair is resolved by a successful deletion, neither
\* the deleted item nor the surviving item is compared again in the run.
C5_ResolvedPairNotComparedAgain ==
    \A p \in Procs : \A k \in Events(p) :
        IsOkDel(p, k) =>
            \A m \in Events(p) :
                (m > k /\ IsCmp(p, m)) =>
                    {log[p][m].a, log[p][m].b} \cap {log[p][k - 1].a, log[p][k - 1].b} = {}

\* C5 as amended: after a successful deletion the deleted item takes part in
\* no further comparison of the run (the surviving item may).
C5_DeletedNotComparedAgain ==
    \A p \in Procs : \A k \in Events(p) :
        IsOkDel(p, k) =>
            \A m \in Events(p) :
                (m > k /\ IsCmp(p, m)) => log[p][k].a \notin {log[p][m].a, log[p][m].b}

\* C5's case: a successful deletion was followed by a comparison of the
\* surviving item with a third item.
C5_Witness ==
    \E k, m \in Events(1) :
        /\ IsOkDel(1, k) /\ m > k /\ IsCmp(1, m)
        /\ {log[1][m].a, log[1][m].b} \cap {log[1][k - 1].a, log[1][k - 1].b} # {}

\* C6: a compared pair that scores exactly the threshold is followed by no
\* delete call, and every delete call follows a comparison that scored
\* strictly above the threshold.
C6_ExactThresholdIsNoMatch ==
    \A p \in Procs : \A k \in Events(p) :
        /\ (IsCmp(p, k) /\ FracEq(CmpSim(p, k), LEVENSHTEIN_THRESHOLD)) =>
               /\ k = Len(log[p]) => pc[p] # "del"
               /\ k < Len(log[p]) => ~IsDel(p, k + 1)
        /\ IsDel(p, k) =>
               /\ k > 1 /\ IsCmp(p, k - 1)
               /\ FracGt(CmpSim(p, k - 1), LEVENSHTEIN_THRESHOLD)

\* C6's case: a run has ended in which two headings of length 5 at edit
\* distance 1 were compared.
C6_Witness ==
    /\ Completed(1)
    /\ \E k \in Events(1) :
           /\ IsCmp(1, k)
           /\ FracEq(CmpSim(1, k), LEVENSHTEIN_THRESHOLD)
           /\ Len(ItemAt(1, log[1][k].a).heading) = 5
           /\ Len(ItemAt(1, log[1][k].b).heading) = 5
           /\ levenshteinDistance(ItemAt(1, log[1][k].a).heading,
                                  ItemAt(1, log[1][k].b).heading) = 1

\* A comparison of a matching pair with equal instants.
IsEqualInstantMatch(p, k) ==
    /\ IsCmp(p, k)
    /\ FracGt(CmpSim(p, k), LEVENSHTEIN_THRESHOLD)
    /\ ItemAt(p, log[p][k].a).lastUpdated = ItemAt(p, log[p][k].b).lastUpdated

\* C7: a matching pair with equal instants still leads to a delete call, and
\* its target is the item at the inner index j (item2); item1 is kept.
C7_EqualInstantsDeleteItem2 ==
    \A p \in Procs : \A k \in Events(p) :
        IsEqualInstantMatch(p, k) =>
            /\ k = Len(log[p]) =>
                   /\ pc[p] = "del"
                   /\ itemToDelete[p] = newsItems[p][j[p] + 1]
                   /\ itemToDelete[p].blobUrl = log[p][k].b
            /\ k < Len(log[p]) =>
                   /\ IsDel(p, k + 1)
                   /\ log[p][k + 1].a = log[p][k].b

\* C7's case: such a pair was compared, item2 was deleted, and the run ended
\* with item1 still in the working set.
C7_Witness ==
    /\ Completed(1)
    /\ \E k \in Events(1) :
           /\ IsEqualInstantMatch(1, k)
           /\ IsOkDel(1, k + 1)
           /\ \E x \in 1..Len(newsItems[1]) : newsItems[1][x].blobUrl = log[1][k].a

\* C8: every item of the working set carries the handle of the stored
\* object it was loaded from, at every point of the scan; the item chosen
\* as loser is one of the two items compared; and every primary delete call
\* targets the handle that one of the two compared items carries.
C8_DeleteTargetsLoadedHandle ==
    \A p \in Procs :
        /\ \A x \in 1..Len(newsItems[p]) :
               /\ newsItems[p][x].blobUrl \in 1..Len(written)
               /\ written[newsItems[p][x].blobUrl].url = newsItems[p][x].blobUrl
               /\ newsItems[p][x] = ItemAt(p, newsItems[p][x].blobUrl)
        /\ pc[p] = "del" =>
               itemToDelete[p] \in {newsItems[p][i[p] + 1], newsItems[p][j[p] + 1]}
        /\ \A k \in Events(p) :
               IsDel(p, k) =>
                   /\ k > 1 /\ IsCmp(p, k - 1)
                   /\ log[p][k].a \in {log[p][k - 1].a, log[p][k - 1].b}
                   /\ pc[p] \in {"plist", "pdel"} /\ k = Len(log[p]) =>
                          log[p][k].a = itemToDelete[p].blobUrl

\* C8's case: after an item was spliced out, a delete call was made for an
\* item that had moved to a lower index, with its own handle.
C8_Witness ==
    \E k, m \in Events(1) :
        /\ IsOkDel(1, k) /\ m > k /\ IsOkDel(1, m)
        /\ log[1][k].a < log[1][m].a
        /\ \E w \in 1..Len(written) :
               /\ written[w].url = log[1][m].a
               /\ WithBlobUrl(written[w].content, written[w]) = ItemAt(1, log[1][m].a)

\* The calls deleteBlob that have succeeded.
OkDeletes(p) == {k \in Events(p) : IsOkDel(p, k)}

\* The handles whose items have left the working sequence: those deleted,
\* but for the one whose cleanup is still under way.
Removed(p) ==
    {log[p][k].a : k \in OkDeletes(p)}
        \ (IF pc[p] \in {"plist", "pdel"} THEN {itemToDelete[p].blobUrl} ELSE {})

Scanning(p) == pc[p] \in {"scan", "del", "plist", "pdel"}

\* C9: during the scan the working sequence never grows; it is the loaded
\* sequence less one item per successful primary delete; and no comparison
\* involves an item that was removed before.
C9_WorkingSetShrinks ==
    /\ [](\A p \in Procs :
            (Scanning(p) \/ Completed(p)) =>
                /\ newsItems[p] = SelectSeq(loaded[p], LAMBDA it : it.blobUrl \notin Removed(p))
                /\ Len(newsItems[p]) = Len(loaded[p]) - Cardinality(Removed(p))
                /\ Cardinality(Removed(p)) + (IF pc[p] \in {"plist", "pdel"} THEN 1 ELSE 0)
                       = Cardinality(OkDeletes(p))
                /\ \A k \in Events(p) :
                       IsCmp(p, k) =>
                           \A m \in OkDeletes(p) :
                               m < k => log[p][m].a \notin {log[p][k].a, log[p][k].b})
    /\ [][\A p \in Procs :
            Scanning(p) =>
                /\ Len(newsItems'[p]) <= Len(newsItems[p])
                /\ Len(newsItems'[p]) >= Len(newsItems[p]) - 1]_vars

\* C9's case: one of three loaded items has been removed, and the two that
\* are left have been compared at the indices 0 and 1 and match.
C9_Witness ==
    /\ pc[1] = "del"
    /\ Cardinality(OkDeletes(1)) = 1
    /\ Len(loaded[1]) = 3 /\ Len(newsItems[1]) = 2
    /\ i[1] = 0 /\ j[1] = 1

\* The step in which the primary delete of invocation p fails.
PrimaryDeleteFails(p) ==
    /\ pc[p] = "del"
    /\ Len(log'[p]) = Len(log[p]) + 1
    /\ log'[p][Len(log'[p])].op = "del"
    /\ ~log'[p][Len(log'[p])].ok

\* C10: when the primary delete fails, the count is not incremented, no
\* persona cleanup is attempted, the item stays in the working sequence, the
\* scan goes on with the next pair, and the run does not answer 500.
C10_FailedDeleteAbortsPair ==
    /\ [](\A p \in Procs :
            /\ \A k \in Events(p) :
                   (IsFailedDel(p, k) /\ k < Len(log[p])) => IsCmp(p, k + 1)
            /\ response[p].status = 500 => log[p] = <<>>)
    /\ [][\A p \in Procs :
            PrimaryDeleteFails(p) =>
                /\ deletedCount'[p] = deletedCount[p]
                /\ newsItems'[p] = newsItems[p]
                /\ personaStore' = personaStore
                /\ globalStore' = globalStore
                /\ IF j[p] + 1 < Len(newsItems[p])
                   THEN pc'[p] = "scan" /\ i'[p] = i[p] /\ j'[p] = j[p] + 1
                   ELSE IF i[p] + 2 < Len(newsItems[p])
                   THEN pc'[p] = "scan" /\ i'[p] = i[p] + 1 /\ j'[p] = i[p] + 2
                   ELSE pc'[p] = "done" /\ response'[p] = [status |-> 200,
                                                           deleted |-> deletedCount[p]]]_vars

\* C10's case: a primary delete failed, the scan went on to compare the
\* loser again, and the run ended with the loser in the working sequence.
C10_Witness ==
    /\ Completed(1)
    /\ \E k \in Events(1) :
           /\ IsFailedDel(1, k)
           /\ k < Len(log[1])
           /\ log[1][k].a \in {log[1][k + 1].a, log[1][k + 1].b}
           /\ \E x \in 1..Len(newsItems[1]) : newsItems[1][x].blobUrl = log[1][k].a

\* The calls of the persona cleanup (lines 116-134).
IsPersonaCall(p, k) == log[p][k].op \in {"plist", "pdel"}
IsFailedPersonaCall(p, k) == IsPersonaCall(p, k) /\ ~log[p][k].ok

\* The step in which a call of the persona cleanup of invocation p fails.
PersonaCallFails(p) ==
    /\ pc[p] \in {"plist", "pdel"}
    /\ Len(log'[p]) = Len(log[p]) + 1
    /\ ~log'[p][Len(log'[p])].ok

\* C11: every call of the persona cleanup follows a successful primary
\* delete, with only successful cleanup calls in between; the step in which
\* a cleanup call fails leaves the count (already incremented) and both
\* stores as they are, removes the loser from the working sequence and goes
\* on at the same indices; the next call is a comparison, and the run
\* answers 200.
C11_PersonaFailureIsHarmless ==
    /\ [](\A p \in Procs :
            /\ \A k \in Events(p) :
                   /\ IsPersonaCall(p, k) =>
                          \E m \in 1..(k - 1) :
                              /\ IsOkDel(p, m)
                              /\ \A x \in (m + 1)..(k - 1) :
                                     IsPersonaCall(p, x) /\ log[p][x].ok
                   /\ (IsFailedPersonaCall(p, k) /\ k < Len(log[p])) => IsCmp(p, k + 1)
            /\ (pc[p] = "done" /\ log[p] # <<>>) => response[p].status = 200)
    /\ [][\A p \in Procs :
            PersonaCallFails(p) =>
                /\ deletedCount[p] = Cardinality(OkDeletes(p))
                /\ deletedCount'[p] = deletedCount[p]
                /\ ~InStore(globalStore, itemToDelete[p].blobUrl)
                /\ globalStore' = globalStore
                /\ personaStore' = personaStore
                /\ newsItems'[p] = SelectSeq(newsItems[p], LAMBDA it : it # itemToDelete[p])
                /\ Len(newsItems'[p]) = Len(newsItems[p]) - 1
                /\ IF j[p] < Len(newsItems'[p])
                   THEN pc'[p] = "scan" /\ i'[p] = i[p] /\ j'[p] = j[p]
                   ELSE IF i[p] + 2 < Len(newsItems'[p])
                   THEN pc'[p] = "scan" /\ i'[p] = i[p] + 1 /\ j'[p] = i[p] + 2
                   ELSE pc'[p] = "done" /\ response'[p] = [status |-> 200,
                                                           deleted |-> deletedCount[p]]]_vars

\* C11's case: a cleanup call failed after the loser's primary delete, the
\* scan went on to compare the items that were left, and the run ended with
\* the loser counted and gone from the working sequence.
C11_Witness ==
    /\ Completed(1)
    /\ response[1].deleted >= 1
    /\ \E k \in Events(1) :
           /\ IsFailedPersonaCall(1, k)
           /\ k < Len(log[1]) /\ IsCmp(1, k + 1)
           /\ \E m \in 1..(k - 1) :
                  /\ IsOkDel(1, m)
                  /\ \A x \in 1..Len(newsItems[1]) : newsItems[1][x].blobUrl # log[1][m].a

\* C12: the count is at every point the number of primary deletes that have
\* succeeded; on a 200 answer the reported count is that number, and it is
\* the number of loaded items less the number left in the working sequence.
C12_CountIsOkPrimaryDeletes ==
    \A p \in Procs :
        /\ deletedCount[p] = Cardinality(OkDeletes(p))
        /\ Completed(p) =>
               /\ response[p].deleted = Cardinality(OkDeletes(p))
               /\ response[p].deleted = Len(loaded[p]) - Len(newsItems[p])

\* C12's case: a run has ended in which one primary delete failed, one
\* succeeded and persona blobs were deleted; it reported 1.
C12_Witness ==
    /\ Completed(1)
    /\ response[1].deleted = 1
    /\ \E k, m, x \in Events(1) :
           /\ IsFailedDel(1, k)
           /\ IsOkDel(1, m)
           /\ log[1][x].op = "pdel" /\ log[1][x].ok

\* The handles of the items that getAllNewsItems returned.
LoadedHandles(p) == {loaded[p][x].blobUrl : x \in 1..Len(loaded[p])}

\* The stored objects as items, in listing order.
StoredItems(p) == [k \in 1..Len(written) |-> ItemAt(p, k)]

\* The step of the load in which a blob is left without an item pushed.
FetchFails(p) ==
    /\ pc[p] = "fetch"
    /\ newsItems'[p] = newsItems[p]

C14_EmptyLoadIsInternalError ==
    \A p \in Procs :
        (pc[p] = "done" /\ method[p] = "POST" /\ written # <<>> /\ loaded[p] = <<>>) =>
            response[p].status = 500

\* Invocation p has arrived with a verb other than POST.
NotPost(p) == method[p] \notin {"", "POST"}

\* C15: a request with a verb other than POST is answered 405 at once; it
\* lists, fetches and deletes nothing, and the step that answers it leaves
\* both namespaces of the store as they were; when it is the only request,
\* the store is what ingestion wrote.
C15_OtherVerbsAreRejected ==
    /\ [](\A p \in Procs :
            NotPost(p) =>
                /\ pc[p] = "done"
                /\ response[p] = [status |-> 405, deleted |-> -1]
                /\ log[p] = <<>> /\ blobs[p] = <<>>
                /\ loaded[p] = <<>> /\ newsItems[p] = <<>>
                /\ deletedCount[p] = 0
                /\ (\A q \in Procs \ {p} : pc[q] = "idle") =>
                       /\ globalStore = written
                       /\ personaStore = PersonaBlobs
                       /\ faults = 0)
    /\ [][\A p \in Procs :
            (method[p] = "" /\ method'[p] \notin {"", "POST"}) =>
                /\ globalStore' = globalStore
                /\ personaStore' = personaStore
                /\ faults' = faults
                /\ log' = log
                /\ response'[p].status = 405]_vars

\* C15's case: a GET request over a store of three objects has been answered.
C15_Witness ==
    /\ method[1] = "GET"
    /\ pc[1] = "done"
    /\ response[1].status = 405
    /\ Len(globalStore) = 3
    /\ personaStore = PersonaBlobs

\* No two of the loaded items have heading similarity above the threshold
\* (so also when nothing, or one item, was loaded).
NoSimilarPairLoaded(p) ==
    \A a, b \in 1..Len(loaded[p]) : a < b => ~Similar(loaded[p][a], loaded[p][b])

\* C16: a run over a loaded corpus without a similar pair makes no delete
\* call and no persona call, ends with the working sequence equal to what
\* was loaded, and answers 200 with a count of 0.
C16_NothingSimilarNothingDeleted ==
    \A p \in Procs :
        (Completed(p) /\ NoSimilarPairLoaded(p)) =>
            /\ \A k \in Events(p) : IsCmp(p, k)
            /\ newsItems[p] = loaded[p]
            /\ response[p] = [status |-> 200, deleted |-> 0]
            /\ \A x \in 1..Len(loaded[p]) : InStore(globalStore, loaded[p][x].blobUrl)

\* C16's case: the first and the third of three stored objects were loaded,
\* their headings differ in one of five characters (a score of exactly the
\* threshold), they were compared, and the run has ended.
C16_Witness ==
    /\ Completed(1)
    /\ LoadedHandles(1) = {1, 3}
    /\ NoSimilarPairLoaded(1)
    /\ Len(log[1]) = 1 /\ IsCmp(1, 1)
    /\ response[1].deleted = 0

\* Every object of store a is an object of store b, unchanged, and the
\* objects keep their order.
SubStore(a, b) ==
    /\ Len(a) <= Len(b)
    /\ \A k \in 1..Len(a) : \E m \in k..Len(b) : a[k] = b[m]
    /\ \A k, l \in 1..Len(a) : k < l => a[k].url # a[l].url

\* C17: at every point the objects under news/global/ are objects that
\* ingestion wrote, with the content it wrote, and those under
\* news/personas/ are cached copies that were there before; no step adds an
\* object to either namespace or changes one.
C17_ReadsAndDeletesOnly ==
    /\ [](/\ SubStore(globalStore, written)
          /\ SubStore(personaStore, PersonaBlobs)
          /\ \A k \in 1..Len(globalStore) :
                 globalStore[k].content = written[globalStore[k].url].content)
    /\ [][/\ SubStore(globalStore', globalStore)
          /\ SubStore(personaStore', personaStore)
          /\ written' = written]_vars

\* C17's case: a run over three objects has ended with one primary object
\* and a cached copy deleted; two objects are left.
C17_Witness ==
    /\ Completed(1)
    /\ Len(written) = 3 /\ Len(globalStore) = 2
    /\ Len(personaStore) < Len(PersonaBlobs)
    /\ response[1].deleted = 1

\* The least of a non-empty set of numbers.
Least(S) == CHOOSE m \in S : \A x \in S : m <= x

\* The least number of single-character insertions, deletions and
\* substitutions that turn a into b, by recursion on the two strings.
RECURSIVE EditDistance(_, _)
EditDistance(a, b) ==
    IF a = <<>> THEN Len(b)
    ELSE IF b = <<>> THEN Len(a)
    ELSE Least({EditDistance(Tail(a), b) + 1,
                EditDistance(a, Tail(b)) + 1,
                EditDistance(Tail(a), Tail(b)) + (IF Head(a) = Head(b) THEN 0 ELSE 1)})

\* The headings of the two items of comparison k.
CmpA(p, k) == ItemAt(p, log[p][k].a).heading
CmpB(p, k) == ItemAt(p, log[p][k].b).heading

\* C18: for the two headings of every comparison, levenshteinDistance is the
\* edit distance, and unless both are empty the score returned is
\* 1 - distance / max(|a|, |b|) with that distance.
C18_DistanceIsEditDistance ==
    \A p \in Procs : \A k \in Events(p) :
        IsCmp(p, k) =>
            LET a == CmpA(p, k)
                b == CmpB(p, k)
                m == Max(Len(a), Len(b))
            IN  /\ levenshteinDistance(a, b) = EditDistance(a, b)
                /\ m > 0 => CmpSim(p, k) = <<m - EditDistance(a, b), m>>

\* C18's case: a heading of length 3 was compared with one of length 2 that
\* is two edits away (a deletion and a substitution); the score is 1 - 2/3.
C18_Witness ==
    \E k \in Events(1) :
        /\ IsCmp(1, k)
        /\ Len(CmpA(1, k)) = 3 /\ Len(CmpB(1, k)) = 2
        /\ EditDistance(CmpA(1, k), CmpB(1, k)) = 2
        /\ CmpA(1, k)[1] # CmpB(1, k)[1]
        /\ CmpSim(1, k) = <<1, 3>>

\* C19: the score of every comparison is the score of the two headings in
\* the other order.
C19_SimilarityIsSymmetric ==
    \A p \in Procs : \A k \in Events(p) :
        IsCmp(p, k) =>
            /\ CmpSim(p, k) = similarity(CmpB(p, k), CmpA(p, k))
            /\ levenshteinDistance(CmpA(p, k), CmpB(p, k))
                   = levenshteinDistance(CmpB(p, k), CmpA(p, k))

\* C19's case: a shorter heading was compared with a longer one that it is
\* not a prefix of, and the score is neither 0 nor 1.
C19_Witness ==
    \E k \in Events(1) :
        /\ IsCmp(1, k)
        /\ Len(CmpA(1, k)) < Len(CmpB(1, k))
        /\ CmpA(1, k) # SubSeq(CmpB(1, k), 1, Len(CmpA(1, k)))
        /\ CmpSim(1, k)[1] > 0 /\ CmpSim(1, k)[1] < CmpSim(1, k)[2]

\* C20: the score of every comparison is a number; it is 1 when the two
\* headings are the same string, empty or not, and only then.
C20_OneIffIdentical ==
    \A p \in Procs : \A k \in Events(p) :
        IsCmp(p, k) =>
            /\ CmpSim(p, k)[2] > 0
            /\ CmpA(p, k) = CmpB(p, k) <=> FracEq(CmpSim(p, k), <<1, 1>>)

\* C20's case: two empty headings were compared and scored 1, and the pair
\* was resolved as a duplicate.
C20_Witness ==
    /\ Completed(1)
    /\ response[1].deleted = 1
    /\ \E k \in Events(1) :
           /\ IsCmp(1, k)
           /\ CmpA(1, k) = <<>> /\ CmpB(1, k) = <<>>
           /\ FracEq(CmpSim(1, k), <<1, 1>>)

\* C21: the score of every comparison lies between 0 and 1, and the
\* distance of its two headings between 0 and the length of the longer.
C21_ScoreBetweenZeroAndOne ==
    \A p \in Procs : \A k \in Events(p) :
        IsCmp(p, k) =>
            /\ CmpSim(p, k)[2] > 0
            /\ 0 <= CmpSim(p, k)[1] /\ CmpSim(p, k)[1] <= CmpSim(p, k)[2]
            /\ levenshteinDistance(CmpA(p, k), CmpB(p, k)) >= 0
            /\ levenshteinDistance(CmpA(p, k), CmpB(p, k))
                   <= Max(Len(CmpA(p, k)), Len(CmpB(p, k)))

\* C21's case: two headings of the greatest length that differ in every
\* position were compared; the distance is that length and the score is 0.
C21_Witness ==
    \E k \in Events(1) :
        /\ IsCmp(1, k)
        /\ Len(CmpA(1, k)) = MaxLen /\ Len(CmpB(1, k)) = MaxLen
        /\ \A x \in 1..MaxLen : CmpA(1, k)[x] # CmpB(1, k)[x]
        /\ CmpSim(1, k) = <<0, MaxLen>>

\* C22 as claimed: at the end of a run in which no call failed, every two
\* items still in the working set have been compared with each other.
C22_EveryRemainingPairCompared ==
    \A p \in Procs :
        (Completed(p) /\ faults = 0) =>
            \A a, b \in 1..Len(newsItems[p]) :
                a < b =>
                    \E k \in Events(p) :
                        /\ IsCmp(p, k)
                        /\ {log[p][k].a, log[p][k].b}
                               = {newsItems[p][a].blobUrl, newsItems[p][b].blobUrl}

\* Event k is a successful primary delete of the item that was at the inner
\* index j of the comparison before it.
IsOkDelOfItem2(p, k) == IsOkDel(p, k) /\ k > 1 /\ log[p][k].a = log[p][k - 1].b

\* The handles of the items that stand after the loser of event k in the
\* working sequence (items are loaded in the order of their handles).
After(p, k) ==
    {h \in LoadedHandles(p) :
        /\ h > log[p][k].a
        /\ \A m \in 1..k : IsOkDel(p, m) => log[p][m].a # h}

\* Event m is the first comparison after event k.
IsNextCmp(p, k, m) ==
    /\ m > k /\ IsCmp(p, m)
    /\ \A x \in (k + 1)..(m - 1) : ~IsCmp(p, x)

\* The step in which the item at the inner index j leaves the working
\* sequence of invocation p.
RemovesItem2(p) ==
    /\ pc[p] \in {"plist", "pdel"}
    /\ Len(newsItems'[p]) = Len(newsItems[p]) - 1
    /\ itemToDelete[p] = newsItems[p][j[p] + 1]

\* C23: when the item at the inner index j is removed, the items before it
\* stay where they are and the items after it move down by one; if an item
\* slid into position j, the scan goes on at the same i and j, and the next
\* comparison is of the item at index i with the item that slid in;
\* otherwise the inner loop is over for this i.
C23_NextComparisonIsSlidItem ==
    /\ [](\A p \in Procs : \A k, m \in Events(p) :
            (IsOkDelOfItem2(p, k) /\ IsNextCmp(p, k, m)) =>
                IF After(p, k) # {}
                THEN /\ log[p][m].a = log[p][k - 1].a
                     /\ log[p][m].b = Least(After(p, k))
                ELSE log[p][m].a # log[p][k - 1].a)
    /\ [][\A p \in Procs :
            RemovesItem2(p) =>
                /\ \A x \in 1..j[p] : newsItems'[p][x] = newsItems[p][x]
                /\ \A x \in (j[p] + 1)..Len(newsItems'[p]) :
                       newsItems'[p][x] = newsItems[p][x + 1]
                /\ IF j[p] < Len(newsItems'[p])
                   THEN pc'[p] = "scan" /\ i'[p] = i[p] /\ j'[p] = j[p]
                   ELSE \/ pc'[p] = "done"
                        \/ pc'[p] = "scan" /\ i'[p] = i[p] + 1 /\ j'[p] = i[p] + 2]_vars

\* C23's case: the second of three loaded items lost against the first and
\* was deleted, and the first was then compared with the third.
C23_Witness ==
    \E k, m \in Events(1) :
        /\ IsOkDelOfItem2(1, k) /\ IsNextCmp(1, k, m)
        /\ Len(loaded[1]) = 3
        /\ log[1][k].a = loaded[1][2].blobUrl
        /\ log[1][m].a = loaded[1][1].blobUrl
        /\ log[1][m].b = loaded[1][3].blobUrl

\* C24: an invocation that has answered 500 has made no delete call at all,
\* primary or persona; when it is the only invocation, both namespaces hold
\* what they held before it.
C24_NoDeleteBeforeInternalError ==
    [](\A p \in Procs :
          response[p].status = 500 =>
              /\ \A k \in Events(p) : log[p][k].op \notin {"del", "pdel"}
              /\ deletedCount[p] = 0
              /\ (\A q \in Procs \ {p} : pc[q] = "idle") =>
                     /\ globalStore = written
                     /\ personaStore = PersonaBlobs)

\* C24's case: the listing of a store of three objects failed and the
\* invocation has answered 500.
C24_Witness ==
    /\ pc[1] = "done"
    /\ method[1] = "POST"
    /\ response[1].status = 500
    /\ faults = 1
    /\ Len(written) = 3

\* C25: a request that has arrived is answered, with 405, 200 or 500,
\* whatever calls fail on the way; until then the handler always has a next
\* step (a pending call that can settle, or a pair inside the working
\* sequence to compare); the handler has ended exactly when an answer was
\* sent, and an answer that was sent is never replaced.
C25_RunEndsWithOneResponse ==
    /\ \A p \in Procs :
           (method[p] # "") ~> (pc[p] = "done" /\ response[p].status \in {405, 200, 500})
    /\ [](\A p \in Procs :
            /\ pc[p] = "done" <=> response[p].status # 0
            /\ pc[p] \in {"list", "fetch", "del", "plist", "pdel"} => ENABLED Handle(p)
            /\ pc[p] = "scan" =>
                   0 <= i[p] /\ i[p] < j[p] /\ j[p] < Len(newsItems[p]))
    /\ [][\A p \in Procs :
            response[p].status # 0 => response'[p] = response[p]]_vars

\* C25's case: a run over three loaded items in which a primary delete
\* failed and another succeeded has ended with its answer.
C25_Witness ==
    /\ pc[1] = "done" /\ response[1].status = 200
    /\ Len(loaded[1]) = 3
    /\ \E k, m \in Events(1) : IsFailedDel(1, k) /\ IsOkDel(1, m)
    /\ i[1] >= Len(newsItems[1]) - 1

\* C26 as claimed: no handle is the target of two primary delete calls of
\* one run, whether the calls succeed or fail.
C26_OneDeleteAttemptPerHandle ==
    \A p \in Procs : \A k, m \in Events(p) :
        (k < m /\ IsDel(p, k) /\ IsDel(p, m)) => log[p][k].a # log[p][m].a

\* C26 as amended: once a primary delete of a handle has succeeded, no
\* further primary delete is issued for that handle in the run (a handle
\* whose delete failed may be the target again).
C26_NoDeleteAfterSuccessfulDelete ==
    [](\A p \in Procs : \A k, m \in Events(p) :
          (k < m /\ IsOkDel(p, k) /\ IsDel(p, m)) => log[p][k].a # log[p][m].a)

\* C26's case: the primary delete of an item failed, the item lost again
\* against a later item, and the second delete succeeded.
C26_Witness ==
    \E k, m \in Events(1) :
        /\ k < m /\ IsFailedDel(1, k) /\ IsOkDel(1, m)
        /\ log[1][k].a = log[1][m].a
        /\ log[1][k - 1].b # log[1][m - 1].b


\* The source URL the persona-cache object with handle h was written for.
WrittenFor(h) ==
    CHOOSE u \in Urls : \E k \in 1..Len(PersonaBlobs) :
        PersonaBlobs[k].url = h /\ PersonaBlobs[k].pathname = PersonaKey(Vibe, u)

\* C27: at the end of a run, no persona-cache object that was deleted had
\* been written for the source URL of an item that remains in the working
\* set.
C27_CleanupOnlyOfLosingItem ==
    \A p \in Procs : Completed(p) =>
        \A k \in Events(p) :
            (log[p][k].op = "pdel" /\ log[p][k].ok) =>
                \A x \in 1..Len(newsItems[p]) :
                    newsItems[p][x].url # WrittenFor(log[p][k].a)


\* The loaded items whose lastUpdated is strictly later than that of every
\* other loaded item (at most one).
StrictlyLatest(p) ==
    {x \in 1..Len(loaded[p]) :
        \A y \in 1..Len(loaded[p]) :
            y # x => loaded[p][y].lastUpdated < loaded[p][x].lastUpdated}

\* C28: from the end of the load on, the strictly latest loaded item is
\* never the item chosen for deletion nor the target of a primary delete,
\* and it stays in the working sequence; a working sequence that was loaded
\* non-empty never becomes empty.
C28_LatestItemIsNeverDeleted ==
    [](\A p \in Procs : (Scanning(p) \/ Completed(p)) =>
          /\ \A x \in StrictlyLatest(p) :
                 /\ itemToDelete[p] # loaded[p][x]
                 /\ \A k \in Events(p) : IsDel(p, k) => log[p][k].a # loaded[p][x].blobUrl
                 /\ \E y \in 1..Len(newsItems[p]) : newsItems[p][y] = loaded[p][x]
          /\ Len(loaded[p]) > 0 => Len(newsItems[p]) > 0)

\* C28's case: three items were loaded, the strictly latest first; it took
\* part in a match twice, one primary delete failed and one succeeded, and
\* it is in the working sequence at the end of the run.
C28_Witness ==
    /\ Completed(1)
    /\ Len(loaded[1]) = 3 /\ StrictlyLatest(1) = {1}
    /\ \E k, m \in Events(1) :
           /\ k # m /\ IsDel(1, k) /\ IsDel(1, m)
           /\ IsCmp(1, k - 1) /\ log[1][k - 1].a = loaded[1][1].blobUrl
           /\ IsCmp(1, m - 1) /\ log[1][m - 1].a = loaded[1][1].blobUrl
           /\ IsFailedDel(1, k) /\ IsOkDel(1, m)
    /\ \E y \in 1..Len(newsItems[1]) : newsItems[1][y] = loaded[1][1]


\* C29: when two interleaved invocations have both answered 200 (and no
\* other was made), no handle was deleted successfully by both, and their
\* two counts add up to the number of objects removed from news/global/.
C29_CountsAddUpToRemovedObjects ==
    \A p, q \in Procs :
        (/\ p < q /\ Completed(p) /\ Completed(q)
         /\ \A r \in Procs \ {p, q} : pc[r] = "idle") =>
            /\ \A k \in OkDeletes(p), m \in OkDeletes(q) : log[p][k].a # log[q][m].a
            /\ response[p].deleted + response[q].deleted
                   = Len(written) - Len(globalStore)

\* ------------------------------------------------- the news endpoint
\* The deduplication endpoint's state, which the news endpoint's steps
\* modelled here leave alone.
dedupeVars == <<written, globalStore, personaStore, faults, method, pc, blobs, newsItems,
                loaded, i, j, deletedCount, itemToDelete, relatedVibeBlobs, response, log>>

\* The bias tags a model answer may carry.
Biases == {"neutral", "left-leaning"}

\* news.ts lines 362-373: the top of safeAICall's loop for article a of
\* request r, up to the await of the model call: the fallback record is
\* returned when the budget is used up, else the counter is incremented
\* and the model is invoked.  No await lies between the test and the
\* increment.
safeAICall(r, a) ==
    IF apiCallCount >= MAX_API_CALLS
    THEN /\ articles' = [articles EXCEPT ![r][a] = [pc |-> "fallback", bias |-> "neutral"]]
         /\ UNCHANGED <<apiCallCount, modelCalls>>
    ELSE /\ apiCallCount' = apiCallCount + 1
         /\ modelCalls' = [modelCalls EXCEPT ![r] = @ + 1]
         /\ articles' = [articles EXCEPT ![r][a].pc = "call"]

\* news.ts lines 665-667: a news request arrives; its handler resets the
\* module-level counter and goes on to fetch the articles.
NewsHandler(r) ==
    /\ newsPc[r] = "idle"
    /\ apiCallCount' = 0
    /\ newsPc' = [newsPc EXCEPT ![r] = "fetch"]
    /\ UNCHANGED <<articles, modelCalls, dedupeVars>>

\* news.ts lines 543-547: processArticles starts one task per article; each
\* is suspended at `await prompt.format`.
processArticles(r) ==
    /\ newsPc[r] = "fetch"
    /\ \E n \in 1..MaxArticles :
           articles' = [articles EXCEPT ![r] = [a \in 1..n |-> [pc |-> "format", bias |-> ""]]]
    /\ newsPc' = [newsPc EXCEPT ![r] = "process"]
    /\ UNCHANGED <<apiCallCount, modelCalls, dedupeVars>>

\* news.ts line 547: the prompt is formatted and safeAICall is entered.
PromptFormatted(r, a) ==
    /\ a \in DOMAIN articles[r]
    /\ articles[r][a].pc = "format"
    /\ safeAICall(r, a)
    /\ UNCHANGED <<newsPc, dedupeVars>>

\* news.ts lines 383-415: the model answers with a record that parses.
ModelAnswers(r, a) ==
    /\ a \in DOMAIN articles[r]
    /\ articles[r][a].pc = "call"
    /\ \E b \in Biases :
           articles' = [articles EXCEPT ![r][a] = [pc |-> "returned", bias |-> b]]
    /\ UNCHANGED <<apiCallCount, newsPc, modelCalls, dedupeVars>>

\* news.ts lines 398-401, 407-410, 416-418: the answer is empty or cut short,
\* or the call throws or times out; `continue` goes back to the loop's top.
ModelFails(r, a) ==
    /\ a \in DOMAIN articles[r]
    /\ articles[r][a].pc = "call"
    /\ safeAICall(r, a)
    /\ UNCHANGED <<newsPc, dedupeVars>>

\* news.ts line 543: Promise.all settles when every article has its record.
ArticlesDone(r) ==
    /\ newsPc[r] = "process"
    /\ \A a \in DOMAIN articles[r] : articles[r][a].pc \in {"returned", "fallback"}
    /\ newsPc' = [newsPc EXCEPT ![r] = "done"]
    /\ UNCHANGED <<apiCallCount, articles, modelCalls, dedupeVars>>

\* News requests in flight together: a request may arrive while the
\* articles of another are being processed.
BudgetNext ==
    \E r \in Procs :
        \/ NewsHandler(r)
        \/ processArticles(r)
        \/ ArticlesDone(r)
        \/ \E a \in 1..MaxArticles :
               PromptFormatted(r, a) \/ ModelAnswers(r, a) \/ ModelFails(r, a)

\* The news endpoint alone, over an empty store.
BudgetInit == Init /\ written = <<>>

BudgetSpec == BudgetInit /\ [][BudgetNext]_vars


\* C30: for every news request, the model is invoked at most MAX_API_CALLS
\* times in total over the request's articles, and an article that got the
\* fallback record carries the bias "neutral".
C30_BudgetBoundsEveryRequest ==
    \A r \in Procs :
        /\ modelCalls[r] <= MAX_API_CALLS
        /\ \A a \in DOMAIN articles[r] :
               articles[r][a].pc = "fallback" => articles[r][a].bias = "neutral"

====
